---- MODULE Spec2Model ----
(***************************************************************************)
(* fermi: Monte Carlo estimation of an arithmetic expression whose numeric *)
(* literals may be ranges (src/fermi.py).                                  *)
(*                                                                         *)
(* One run of main() is modelled: the command line is the input, the       *)
(* pipeline parse_expression -> generate_samples -> evaluate_expression -> *)
(* statistics is one action per call of unsafe_main, and the observable    *)
(* outcome is the lines written to standard output and the exit status.    *)
(*                                                                         *)
(* Text is a sequence of one-character strings.  A float is a record       *)
(* [s, n, d], the exact value s*n/d with n, d >= 0: d = 0 and n = 1 is an  *)
(* infinity, n = d = 0 is NaN, n = 0 and d = 1 is a (signed) zero.         *)
(* Rounding of binary floating point is not modelled: within the bounds    *)
(* every literal and every intermediate value is a small rational.         *)
(***************************************************************************)
EXTENDS Integers, Sequences, FiniteSets, TLC

(***************************************************************************)
(* Characters and text                                                     *)
(***************************************************************************)
DigitChars == <<"0", "1", "2", "3", "4", "5", "6", "7", "8", "9">>

Digits == {DigitChars[i] : i \in 1..Len(DigitChars)}

DigitVal(c) == (CHOOSE i \in 1..Len(DigitChars) : DigitChars[i] = c) - 1

Letters ==
    {"a", "b", "c", "d", "e", "f", "g", "h", "i", "j", "k", "l", "m", "n",
     "o", "p", "q", "r", "s", "t", "u", "v", "w", "x", "y", "z", "E", "_"}

\* \s of the re module, as far as the inputs can hold it
Whitespace == {" ", "\t", "\n", "\r", "\f"}

At(s, i) == IF i >= 1 /\ i <= Len(s) THEN s[i] ELSE ""

RECURSIVE SkipDigits(_, _)
\* \d+ / \d* : the position after the longest run of digits starting at i
SkipDigits(s, i) == IF At(s, i) \in Digits THEN SkipDigits(s, i + 1) ELSE i

RECURSIVE SkipSpace(_, _)
\* \s* : the position after the longest run of whitespace starting at i
SkipSpace(s, i) == IF At(s, i) \in Whitespace THEN SkipSpace(s, i + 1) ELSE i

RECURSIVE NatDigits(_)
NatDigits(k) ==
    IF k < 10 THEN <<DigitChars[k + 1]>>
    ELSE NatDigits(k \div 10) \o <<DigitChars[(k % 10) + 1]>>

\* str(k) for an integer k
str(k) == IF k < 0 THEN <<"-">> \o NatDigits(-k) ELSE NatDigits(k)

RECURSIVE DigitsNat(_, _)
\* the number written by a run of digits, most significant first
DigitsNat(ds, acc) ==
    IF ds = <<>> THEN acc ELSE DigitsNat(Tail(ds), 10 * acc + DigitVal(Head(ds)))

RECURSIVE Pow10(_)
Pow10(k) == IF k = 0 THEN 1 ELSE 10 * Pow10(k - 1)

(***************************************************************************)
(* Floats                                                                  *)
(***************************************************************************)
RECURSIVE GCD(_, _)
GCD(a, b) == IF b = 0 THEN a ELSE GCD(b, a % b)

NaN == [s |-> 1, n |-> 0, d |-> 0]

Inf(sgn) == [s |-> sgn, n |-> 1, d |-> 0]

\* the float s*n/d in lowest terms
Norm(sgn, n, d) ==
    IF d = 0 THEN (IF n = 0 THEN NaN ELSE Inf(sgn))
    ELSE IF n = 0 THEN [s |-> sgn, n |-> 0, d |-> 1]
    ELSE LET g == GCD(n, d) IN [s |-> sgn, n |-> n \div g, d |-> d \div g]

FromInt(k) == IF k < 0 THEN [s |-> -1, n |-> -k, d |-> 1] ELSE [s |-> 1, n |-> k, d |-> 1]

Frac(p, q) == Norm(IF p < 0 THEN -1 ELSE 1, IF p < 0 THEN -p ELSE p, q)

IsNaN(x) == x.n = 0 /\ x.d = 0

IsInf(x) == x.n = 1 /\ x.d = 0

IsFinite(x) == x.d > 0

IsZero(x) == x.n = 0 /\ x.d = 1

\* the signed numerator
SNum(x) == x.s * x.n

FNeg(x) == IF IsNaN(x) THEN NaN ELSE [x EXCEPT !.s = -x.s]

FAbs(x) == IF IsNaN(x) THEN NaN ELSE [x EXCEPT !.s = 1]

\* x == y, x < y, x <= y, x > y of IEEE floats: false when either is NaN, and
\* -0.0 == 0.0
FEq(x, y) ==
    /\ ~IsNaN(x) /\ ~IsNaN(y)
    /\ IF IsInf(x) \/ IsInf(y) THEN x = y
       ELSE SNum(x) * y.d = SNum(y) * x.d

FLt(x, y) ==
    /\ ~IsNaN(x) /\ ~IsNaN(y)
    /\ IF IsInf(x) /\ IsInf(y) THEN x.s < y.s
       ELSE IF IsInf(x) THEN x.s < 0
       ELSE IF IsInf(y) THEN y.s > 0
       ELSE SNum(x) * y.d < SNum(y) * x.d

FLe(x, y) == FLt(x, y) \/ FEq(x, y)

FGt(x, y) == FLt(y, x)

FAdd(x, y) ==
    IF IsNaN(x) \/ IsNaN(y) THEN NaN
    ELSE IF IsInf(x) /\ IsInf(y) THEN (IF x.s = y.s THEN x ELSE NaN)
    ELSE IF IsInf(x) THEN x
    ELSE IF IsInf(y) THEN y
    ELSE LET num == SNum(x) * y.d + SNum(y) * x.d
         IN  IF num = 0
             THEN [s |-> IF x.s < 0 /\ y.s < 0 THEN -1 ELSE 1, n |-> 0, d |-> 1]
             ELSE Frac(num, x.d * y.d)

FSub(x, y) == FAdd(x, FNeg(y))

FMul(x, y) == Norm(x.s * y.s, x.n * y.n, x.d * y.d)

FRecip(x) == Norm(x.s, x.d, x.n)

\* float division: x/0 is an infinity, 0/0 is NaN (a RuntimeWarning, not an error)
FDiv(x, y) == FMul(x, FRecip(y))

\* numpy.floor_divide on floats
FFloorDiv(x, y) ==
    IF IsNaN(x) \/ IsNaN(y) \/ IsInf(x) THEN NaN
    ELSE IF IsZero(y) THEN FDiv(x, y)
    ELSE IF IsInf(y)
         THEN (IF IsZero(x) \/ x.s = y.s THEN Norm(x.s * y.s, 0, 1) ELSE FromInt(-1))
    ELSE LET q == (x.s * y.s * x.n * y.d) \div (x.d * y.n)
         IN  IF q = 0 THEN Norm(x.s * y.s, 0, 1) ELSE FromInt(q)

IsInteger(x) == x.d = 1

RECURSIVE IntPow(_, _)
\* x multiplied k times
IntPow(x, k) == IF k = 0 THEN FromInt(1) ELSE FMul(x, IntPow(x, k - 1))

\* pow(x, y) of C, which numpy's ** applies element-wise.  A finite positive x
\* other than 1 raised to a non-integer y is irrational and has no case here.
FPow(x, y) ==
    CASE IsZero(y) -> FromInt(1)
      [] ~IsZero(y) /\ x = FromInt(1) -> FromInt(1)
      [] ~IsZero(y) /\ x # FromInt(1) /\ (IsNaN(x) \/ IsNaN(y)) -> NaN
      [] ~IsZero(y) /\ x # FromInt(1) /\ ~IsNaN(x) /\ IsInf(y) ->
            IF FAbs(x) = FromInt(1) THEN FromInt(1)
            ELSE IF FLt(FAbs(x), FromInt(1)) = (y.s > 0) THEN FromInt(0) ELSE Inf(1)
      [] ~IsZero(y) /\ x # FromInt(1) /\ ~IsNaN(x) /\ IsFinite(y) /\ IsInteger(y) ->
            IF y.s > 0 THEN IntPow(x, y.n) ELSE FRecip(IntPow(x, y.n))
      [] ~IsZero(y) /\ ~IsNaN(x) /\ IsFinite(y) /\ ~IsInteger(y)
           /\ (IsZero(x) \/ IsInf(x)) ->
            IF IsZero(x) = (y.s > 0) THEN FromInt(0) ELSE Inf(1)
      [] ~IsZero(y) /\ ~IsNaN(x) /\ IsFinite(y) /\ ~IsInteger(y)
           /\ IsFinite(x) /\ ~IsZero(x) /\ x.s < 0 -> NaN

(***************************************************************************)
(* parse_expression: the regular expressions                               *)
(*                                                                         *)
(* A match is computed left to right, each step an operator that is given  *)
(* the positions reached so far.                                           *)
(***************************************************************************)
\* (?:[eE][-+]?\d+)? from j2, the digits of the exponent expected at k
number_exponent_digits(s, j2, k) == IF At(s, k) \in Digits THEN SkipDigits(s, k) ELSE j2

number_exponent(s, j2) ==
    IF At(s, j2) \in {"e", "E"}
    THEN number_exponent_digits(s, j2, IF At(s, j2 + 1) \in {"-", "+"} THEN j2 + 2 ELSE j2 + 1)
    ELSE j2

\* (?:\.\d+)? from j1, then the exponent
number_fraction(s, j1) ==
    number_exponent(s, IF At(s, j1) = "." /\ At(s, j1 + 1) \in Digits
                       THEN SkipDigits(s, j1 + 1) ELSE j1)

\* \d+ from j0, which must match at least one digit
number_digits(s, j0, j1) == IF j1 = j0 THEN 0 ELSE number_fraction(s, j1)

number_sign(s, j0) == number_digits(s, j0, SkipDigits(s, j0))

\* number_pattern  -?\d+(?:\.\d+)?(?:[eE][-+]?\d+)?  matched at position i: the
\* position after the match, 0 when there is none.  Every quantifier is greedy
\* and nothing after an optional group can fail, so the match is the longest.
number_pattern(s, i) == number_sign(s, IF At(s, i) = "-" THEN i + 1 ELSE i)

NoMatch == [end |-> 0, g1 |-> <<>>, g2 |-> <<>>]

range_groups(s, i, e1, b2, e2) ==
    IF e2 > 0
    THEN [end |-> e2, g1 |-> SubSeq(s, i, e1 - 1), g2 |-> SubSeq(s, b2, e2 - 1)]
    ELSE NoMatch

range_second(s, i, e1, b2) == range_groups(s, i, e1, b2, number_pattern(s, b2))

range_comma(s, i, e1, c) ==
    IF At(s, c) = "," THEN range_second(s, i, e1, SkipSpace(s, c + 1)) ELSE NoMatch

range_first(s, i, e1) == IF e1 > 0 THEN range_comma(s, i, e1, SkipSpace(s, e1)) ELSE NoMatch

\* range_pattern  (number)\s*,\s*(number)  matched at position i: the end of
\* the match and its two groups, end = 0 when there is no match.  A shorter
\* first number is followed by a digit, '.', 'e' or 'E', never by \s or ',', so
\* backtracking into the first group finds nothing.
range_pattern(s, i) == range_first(s, i, number_pattern(s, i))

\* token_pattern with its alternatives in the other order, (number|range)
token_number_first(s, i) ==
    IF number_pattern(s, i) > 0 THEN number_pattern(s, i) ELSE range_pattern(s, i).end

token_alternatives(s, i, m) == IF m.end > 0 THEN m.end ELSE number_pattern(s, i)

\* token_pattern  (range|number): the range alternative is tried first
token_pattern(s, i) == token_alternatives(s, i, range_pattern(s, i))

fullmatch_end(token, m) == IF m.end = Len(token) + 1 THEN m ELSE NoMatch

\* re.fullmatch(range_pattern, token)
fullmatch_range(token) == fullmatch_end(token, range_pattern(token, 1))

\* the value of the mantissa digits mant scaled by 10^sc
float_scaled(sgn, mant, sc) ==
    IF sc >= 0 THEN Norm(sgn, mant * Pow10(sc), 1) ELSE Norm(sgn, mant, Pow10(-sc))

\* the exponent, written from k on when j2 is inside the text
float_exponent(text, sgn, mant, fl, j2, k) ==
    float_scaled(sgn, mant,
                 (IF j2 <= Len(text)
                  THEN (IF At(text, j2 + 1) = "-" THEN -1 ELSE 1)
                       * DigitsNat(SubSeq(text, k, Len(text)), 0)
                  ELSE 0) - fl)

\* the digits before and after the point, which end at j1 and j2
float_mantissa(text, sgn, j0, j1, j2) ==
    float_exponent(text, sgn,
                   DigitsNat(SubSeq(text, j0, j1 - 1) \o SubSeq(text, j1 + 1, j2 - 1), 0),
                   IF j2 > j1 THEN j2 - j1 - 1 ELSE 0,
                   j2, IF At(text, j2 + 1) \in {"-", "+"} THEN j2 + 2 ELSE j2 + 1)

float_point(text, sgn, j0, j1) ==
    float_mantissa(text, sgn, j0, j1,
                   IF At(text, j1) = "." THEN SkipDigits(text, j1 + 1) ELSE j1)

float_sign(text, sgn, j0) == float_point(text, sgn, j0, SkipDigits(text, j0))

\* float(text) for a text number_pattern matched
float(text) ==
    IF At(text, 1) = "-" THEN float_sign(text, -1, 2) ELSE float_sign(text, 1, 1)

(***************************************************************************)
(* parse_expression                                                        *)
(***************************************************************************)
\* f'var{var_index}'
var_name_of(var_index) == <<"v", "a", "r">> \o str(var_index)

\* the counter left as it is after a match
same_var_index(var_index) == var_index

\* var_index += 1
next_var_index(var_index) == var_index + 1

\* what one step of the scan puts before the rest of the scan
sub_join(head, pairs, rest) ==
    [expression |-> head \o rest.expression, tokens |-> pairs \o rest.tokens]

\* replace_token(match): the name returned and the pair appended to tokens
replace_token(token, var_index) ==
    [var_name |-> var_name_of(var_index), token |-> token]

RECURSIVE sub(_, _, _)
\* the scan at position i, where token_pattern ends at e (0: no match)
sub_at(s, i, var_index, e) ==
    IF e > 0
    THEN sub_join(var_name_of(var_index), <<replace_token(SubSeq(s, i, e - 1), var_index)>>,
                  sub(s, e, next_var_index(var_index)))
    ELSE sub_join(<<s[i]>>, <<>>, sub(s, i + 1, var_index))

\* re.sub(token_pattern, replace_token, expr) scanning from position i with the
\* counter at var_index: the rewritten text and the (var_name, token) pairs that
\* replace_token appended to tokens, in the order of the matches
sub(s, i, var_index) ==
    IF i > Len(s) THEN [expression |-> <<>>, tokens |-> <<>>]
    ELSE sub_at(s, i, var_index, token_pattern(s, i))

Scalar(v) == [kind |-> "scalar", a |-> v, b |-> v]

Range(a, b) == [kind |-> "range", a |-> a, b |-> b]

\* d[key] = value on a dict kept as the sequence of its items in insertion
\* order: an existing key keeps its place and takes the new value
DictSet(d, key, value) ==
    IF \E i \in 1..Len(d) : d[i].name = key
    THEN [i \in 1..Len(d) |-> IF d[i].name = key THEN [name |-> key, value |-> value] ELSE d[i]]
    ELSE Append(d, [name |-> key, value |-> value])

DictHas(d, key) == \E i \in 1..Len(d) : d[i].name = key

DictGet(d, key) == d[CHOOSE i \in 1..Len(d) : d[i].name = key].value

DictKeys(d) == [i \in 1..Len(d) |-> d[i].name]

\* the comparison of line 34 the other way round
range_is_ordered(a, b) == FLt(a, b)

\* a > b of line 34
range_is_reversed(a, b) == FGt(a, b)

RangeOrderError(token) ==
    [kind |-> "error", what |-> "lower bound greater than upper bound", detail |-> token]

RECURSIVE build_var_values(_, _)
\* lines 32-37 for a token that is the range (a, b)
build_range(tokens, var_values, a, b) ==
    IF range_is_reversed(a, b)
    THEN [exit |-> TRUE, var_values |-> var_values,
          line |-> <<RangeOrderError(Head(tokens).token)>>]
    ELSE build_var_values(Tail(tokens), DictSet(var_values, Head(tokens).var_name, Range(a, b)))

\* lines 30-39 for the first token, range_match being what fullmatch returned
build_entry(tokens, var_values, range_match) ==
    IF range_match.end > 0
    THEN build_range(tokens, var_values, float(range_match.g1), float(range_match.g2))
    ELSE build_var_values(Tail(tokens),
                          DictSet(var_values, Head(tokens).var_name,
                                  Scalar(float(Head(tokens).token))))

\* the loop of lines 28-39 over the remaining tokens: the dict, or the exit of
\* lines 35-36 at the first range whose lower bound is greater than its upper
build_var_values(tokens, var_values) ==
    IF tokens = <<>> THEN [exit |-> FALSE, var_values |-> var_values, line |-> <<>>]
    ELSE build_entry(tokens, var_values, fullmatch_range(Head(tokens).token))

\* a comma looked for at the start of the rewritten expression only
starts_with_comma(expression) == expression # <<>> /\ Head(expression) = ","

\* ',' in expression
has_comma(expression) == \E i \in 1..Len(expression) : expression[i] = ","

MalformedRangeError == [kind |-> "error", what |-> "invalid character ','", detail |-> <<>>]

\* lines 41-45, after the loop
parse_return(expression, vv) ==
    IF vv.exit
    THEN [exit |-> TRUE, line |-> vv.line, expression |-> expression, var_values |-> <<>>]
    ELSE IF has_comma(expression)
    THEN [exit |-> TRUE, line |-> <<MalformedRangeError>>, expression |-> expression,
          var_values |-> <<>>]
    ELSE [exit |-> FALSE, line |-> <<>>, expression |-> expression,
          var_values |-> vv.var_values]

parse_tokens(r) == parse_return(r.expression, build_var_values(r.tokens, <<>>))

\* parse_expression(expr): [exit, line] when it prints an error and exits with
\* status 1, else the returned (expression, var_values)
parse_expression(expr) == parse_tokens(sub(expr, 1, 0))

(***************************************************************************)
(* generate_samples                                                        *)
(***************************************************************************)
\* 2.576 of lines 56 and 65
z_score == Frac(2576, 1000)

\* np.full(num_samples, value); a negative size raises ValueError
np_full(num_samples, value) == [i \in 1..num_samples |-> value]

\* a == b of line 52
is_degenerate(a, b) == FEq(a, b)

\* a >= 0 in the place of a > 0
is_not_negative(a) == FLe(FromInt(0), a)

\* a > 0 of line 54
is_positive(a) == FGt(a, FromInt(0))

\* sigma <= 0 of line 57, sigma = (log(b) - log(a)) / (2 * 2.576): log is
\* increasing, so for 0 < a the sign of sigma is the sign of b - a
lognormal_sigma_invalid(a, b) == FLe(FSub(b, a), FromInt(0))

\* np.random.lognormal(mean=mu, sigma=sigma): any positive float can be drawn;
\* three of them stand for all: one below a, one inside [a, b], one above b
lognormal_draws(a, b) ==
    {FDiv(a, FromInt(2)), FDiv(FAdd(a, b), FromInt(2)), FMul(b, FromInt(2))}

\* mu and sigma of lines 64-65
truncnorm_mu(a, b) == FDiv(FAdd(a, b), FromInt(2))

truncnorm_sigma(a, b) == FDiv(FSub(b, a), FMul(FromInt(2), z_score))

\* truncnorm.rvs(lower, upper, loc=mu, scale=sigma): a draw lies in
\* [mu + lower*sigma, mu + upper*sigma]; the two ends and mu stand for all
truncnorm_draws(a, b) ==
    LET mu    == truncnorm_mu(a, b)
        sigma == truncnorm_sigma(a, b)
        lower == FDiv(FSub(a, mu), sigma)
        upper == FDiv(FSub(b, mu), sigma)
    IN  {FAdd(mu, FMul(lower, sigma)), mu, FAdd(mu, FMul(upper, sigma))}

\* The branch of lines 50-73 one entry of var_values takes, and what it can
\* give: the arrays that can be stored (for num_samples >= 0), or the error
\* line printed before sys.exit(1)
sample_entry(entry, num_samples) ==
    LET a == entry.value.a
        b == entry.value.b
    IN  IF entry.value.kind = "range"
        THEN IF is_degenerate(a, b)
             THEN [dist |-> "constant", exit |-> FALSE, what |-> "",
                   arrays |-> {np_full(num_samples, a)}]
             ELSE IF is_positive(a)
             THEN IF lognormal_sigma_invalid(a, b)
                  THEN [dist |-> "lognormal", exit |-> TRUE,
                        what |-> "invalid range for log-normal distribution", arrays |-> {}]
                  ELSE [dist |-> "lognormal", exit |-> FALSE, what |-> "",
                        arrays |-> [1..num_samples -> lognormal_draws(a, b)]]
             ELSE IF FLe(truncnorm_sigma(a, b), FromInt(0))
                  THEN [dist |-> "truncnorm", exit |-> TRUE,
                        what |-> "invalid range for normal distribution", arrays |-> {}]
                  ELSE [dist |-> "truncnorm", exit |-> FALSE, what |-> "",
                        arrays |-> [1..num_samples -> truncnorm_draws(a, b)]]
        ELSE [dist |-> "constant", exit |-> FALSE, what |-> "",
              arrays |-> {np_full(num_samples, a)}]

RECURSIVE generate_samples(_, _, _, _)
\* one turn of the loop of line 49, r being what the entry's branch gives
sample_next(var_values, num_samples, samples, dist, r) ==
    IF r.exit
    THEN {[outcome |-> "exit", samples |-> samples, dist |-> dist, exc |-> "",
           line |-> <<[kind |-> "error", what |-> r.what,
                       detail |-> Head(var_values).name]>>]}
    ELSE IF num_samples < 0
    THEN {[outcome |-> "raise", samples |-> samples, dist |-> dist,
           exc |-> "ValueError", line |-> <<>>]}
    ELSE UNION {generate_samples(Tail(var_values), num_samples,
                                 DictSet(samples, Head(var_values).name, arr),
                                 DictSet(dist, Head(var_values).name, r.dist))
                : arr \in r.arrays}

\* generate_samples(var_values, num_samples) over the remaining entries, with
\* the samples dict so far and the branch each entry took: every outcome the
\* random draws allow.  outcome is "return", "exit" (an error line was printed
\* and sys.exit(1) called) or "raise" (ValueError: negative dimensions)
generate_samples(var_values, num_samples, samples, dist) ==
    IF var_values = <<>>
    THEN {[outcome |-> "return", samples |-> samples, dist |-> dist, exc |-> "",
           line |-> <<>>]}
    ELSE sample_next(var_values, num_samples, samples, dist,
                     sample_entry(Head(var_values), num_samples))

(***************************************************************************)
(* evaluate_expression: Python's eval on the rewritten text                *)
(*                                                                         *)
(* The grammar is the part of Python's expression grammar that names, the  *)
(* operators + - * / // **, parentheses and attribute references can spell.*)
(* The text holds no line break, quote, bracket or comparison.             *)
(***************************************************************************)
RECURSIVE replace_caret(_)
\* expression.replace('^', '**')
replace_caret(expression) ==
    IF expression = <<>> THEN <<>>
    ELSE (IF Head(expression) = "^" THEN <<"*", "*">> ELSE <<Head(expression)>>)
         \o replace_caret(Tail(expression))

RECURSIVE SkipName(_, _)
SkipName(s, i) == IF At(s, i) \in Letters \cup Digits THEN SkipName(s, i + 1) ELSE i

RECURSIVE tokenize(_, _)
\* Python's tokenizer from position i: names, operators (the longest first),
\* blanks skipped; any other character is an "error" token
tokenize(s, i) ==
    IF i > Len(s) THEN <<>>
    ELSE LET c == s[i]
         IN  CASE c \in {" ", "\t", "\f"} -> tokenize(s, i + 1)
               [] c \in Letters ->
                    <<[t |-> "name", text |-> SubSeq(s, i, SkipName(s, i) - 1)]>>
                    \o tokenize(s, SkipName(s, i))
               [] c \in {"*", "/"} /\ At(s, i + 1) = c ->
                    <<[t |-> IF c = "*" THEN "**" ELSE "//", text |-> <<>>]>>
                    \o tokenize(s, i + 2)
               [] c \in {"*", "/"} /\ At(s, i + 1) # c ->
                    <<[t |-> c, text |-> <<>>]>> \o tokenize(s, i + 1)
               [] c = "." /\ At(s, i + 1) = "." /\ At(s, i + 2) = "." ->
                    <<[t |-> "...", text |-> <<>>]>> \o tokenize(s, i + 3)
               [] c = "." /\ ~(At(s, i + 1) = "." /\ At(s, i + 2) = ".") ->
                    <<[t |-> ".", text |-> <<>>]>> \o tokenize(s, i + 1)
               [] c \in {"+", "-", "(", ")"} ->
                    <<[t |-> c, text |-> <<>>]>> \o tokenize(s, i + 1)
               [] OTHER -> <<[t |-> "error", text |-> <<c>>]>> \o tokenize(s, i + 1)

Tok(toks, i) == IF i >= 1 /\ i <= Len(toks) THEN toks[i].t ELSE "end"

SyntaxError == [ok |-> FALSE, ast |-> [op |-> "none"], pos |-> 0]

Parsed(ast, pos) == [ok |-> TRUE, ast |-> ast, pos |-> pos]

RECURSIVE parse_sum(_, _), parse_sum_rest(_, _, _), parse_term(_, _),
          parse_term_rest(_, _, _), parse_factor(_, _), parse_power(_, _),
          parse_primary(_, _), parse_trailers(_, _, _), parse_atom(_, _)

\* Each rule hands what its first part parsed (l, r, x: a Parsed or the
\* SyntaxError) to the operator that continues the rule.
sum_first(toks, l) == IF l.ok THEN parse_sum_rest(toks, l.ast, l.pos) ELSE SyntaxError

\* sum: term (('+' | '-') term)*
parse_sum(toks, i) == sum_first(toks, parse_term(toks, i))

sum_next(toks, left, i, r) ==
    IF r.ok THEN parse_sum_rest(toks, [op |-> Tok(toks, i), l |-> left, r |-> r.ast], r.pos)
    ELSE SyntaxError

parse_sum_rest(toks, left, i) ==
    IF Tok(toks, i) \in {"+", "-"} THEN sum_next(toks, left, i, parse_term(toks, i + 1))
    ELSE Parsed(left, i)

term_first(toks, l) == IF l.ok THEN parse_term_rest(toks, l.ast, l.pos) ELSE SyntaxError

\* term: factor (('*' | '/' | '//') factor)*
parse_term(toks, i) == term_first(toks, parse_factor(toks, i))

term_next(toks, left, i, r) ==
    IF r.ok THEN parse_term_rest(toks, [op |-> Tok(toks, i), l |-> left, r |-> r.ast], r.pos)
    ELSE SyntaxError

parse_term_rest(toks, left, i) ==
    IF Tok(toks, i) \in {"*", "/", "//"} THEN term_next(toks, left, i, parse_factor(toks, i + 1))
    ELSE Parsed(left, i)

factor_signed(toks, i, x) ==
    IF x.ok THEN Parsed([op |-> IF Tok(toks, i) = "-" THEN "neg" ELSE "pos", x |-> x.ast], x.pos)
    ELSE SyntaxError

\* factor: ('+' | '-') factor | power
parse_factor(toks, i) ==
    IF Tok(toks, i) \in {"+", "-"} THEN factor_signed(toks, i, parse_factor(toks, i + 1))
    ELSE parse_power(toks, i)

power_exponent(b, e) ==
    IF e.ok THEN Parsed([op |-> "**", l |-> b.ast, r |-> e.ast], e.pos) ELSE SyntaxError

power_base(toks, b) ==
    IF ~b.ok THEN SyntaxError
    ELSE IF Tok(toks, b.pos) = "**" THEN power_exponent(b, parse_factor(toks, b.pos + 1))
    ELSE b

\* power: primary ['**' factor]
parse_power(toks, i) == power_base(toks, parse_primary(toks, i))

primary_atom(toks, a) == IF a.ok THEN parse_trailers(toks, a.ast, a.pos) ELSE SyntaxError

\* primary: atom ('.' NAME | '(' [expression] ')')*
parse_primary(toks, i) == primary_atom(toks, parse_atom(toks, i))

trailer_call(toks, left, x) ==
    IF x.ok /\ Tok(toks, x.pos) = ")"
    THEN parse_trailers(toks, [op |-> "call", f |-> left, args |-> <<x.ast>>], x.pos + 1)
    ELSE SyntaxError

parse_trailers(toks, left, i) ==
    CASE Tok(toks, i) = "." ->
            IF Tok(toks, i + 1) = "name"
            THEN parse_trailers(toks, [op |-> "attr", x |-> left, id |-> toks[i + 1].text], i + 2)
            ELSE SyntaxError
      [] Tok(toks, i) = "(" /\ Tok(toks, i + 1) = ")" ->
            parse_trailers(toks, [op |-> "call", f |-> left, args |-> <<>>], i + 2)
      [] Tok(toks, i) = "(" /\ Tok(toks, i + 1) # ")" ->
            trailer_call(toks, left, parse_sum(toks, i + 1))
      [] OTHER -> Parsed(left, i)

atom_group(toks, x) ==
    IF x.ok /\ Tok(toks, x.pos) = ")" THEN Parsed(x.ast, x.pos + 1) ELSE SyntaxError

\* atom: NAME | '...' | '(' ')' | '(' expression ')'
parse_atom(toks, i) ==
    CASE Tok(toks, i) = "name" -> Parsed([op |-> "name", id |-> toks[i].text], i + 1)
      [] Tok(toks, i) = "..." -> Parsed([op |-> "ellipsis"], i + 1)
      [] Tok(toks, i) = "(" /\ Tok(toks, i + 1) = ")" -> Parsed([op |-> "tuple"], i + 2)
      [] Tok(toks, i) = "(" /\ Tok(toks, i + 1) # ")" -> atom_group(toks, parse_sum(toks, i + 1))
      [] OTHER -> SyntaxError

source_end(toks, x) == IF x.ok /\ x.pos = Len(toks) + 1 THEN x ELSE SyntaxError

source_tokens(toks) == source_end(toks, parse_sum(toks, 1))

\* compile(source, mode='eval'): the whole text is one expression
parse_source(source) == source_tokens(tokenize(source, 1))

(***************************************************************************)
(* evaluate_expression: the objects and the operators                      *)
(***************************************************************************)
\* Python objects: an ndarray of float64 (arr), a float (x), the empty tuple,
\* the numpy module, a dict, a function
Array(arr) == [tag |-> "array", arr |-> arr, x |-> NaN, id |-> ""]

Float(x) == [tag |-> "float", arr |-> <<>>, x |-> x, id |-> ""]

EmptyTuple == [tag |-> "tuple", arr |-> <<>>, x |-> NaN, id |-> ""]

\* import numpy as np
numpy_module == [tag |-> "module", arr |-> <<>>, x |-> NaN, id |-> "numpy"]

Dict(id) == [tag |-> "dict", arr |-> <<>>, x |-> NaN, id |-> id]

Function(id) == [tag |-> "function", arr |-> <<>>, x |-> NaN, id |-> id]

Ellipsis == [tag |-> "ellipsis", arr |-> <<>>, x |-> NaN, id |-> ""]

\* objects no arithmetic operator accepts
Opaque == {"module", "dict", "function", "ellipsis"}

\* allowed_names = {'np': np, '__builtins__': {}}; allowed_names.update(samples)
RECURSIVE dict_update(_, _)
dict_update(d, items) ==
    IF items = <<>> THEN d
    ELSE dict_update(DictSet(d, Head(items).name, Array(Head(items).value)), Tail(items))

allowed_names(samples) ==
    dict_update(<<[name |-> <<"n", "p">>, value |-> numpy_module],
                  [name |-> <<"_", "_", "b", "u", "i", "l", "t", "i", "n", "s", "_", "_">>,
                   value |-> Dict("empty")]>>,
                samples)

\* Attributes of the numpy module that the model knows: two float constants,
\* the file readers and writers, and the interpreter's builtins, which every
\* module loaded from source holds as __builtins__
numpy_attributes ==
    <<[name |-> <<"i", "n", "f">>, value |-> Float(Inf(1))],
      [name |-> <<"n", "a", "n">>, value |-> Float(NaN)],
      [name |-> <<"l", "o", "a", "d">>, value |-> Function("numpy.load")],
      [name |-> <<"s", "a", "v", "e">>, value |-> Function("numpy.save")],
      [name |-> <<"_", "_", "b", "u", "i", "l", "t", "i", "n", "s", "_", "_">>,
       value |-> Dict("builtins")]>>

HasDigit(text) == \E i \in 1..Len(text) : text[i] \in Digits

Raise(exc) == [ok |-> FALSE, exc |-> exc, val |-> EmptyTuple]

Value(v) == [ok |-> TRUE, exc |-> "", val |-> v]

\* getattr(obj, name).  No attribute of any of these objects has a digit in its
\* name; of the names without one only those of numpy_attributes are modelled.
getattr(obj, name) ==
    CASE HasDigit(name) -> Raise("AttributeError")
      [] ~HasDigit(name) /\ obj.tag = "module" /\ DictHas(numpy_attributes, name) ->
            Value(DictGet(numpy_attributes, name))

\* one element of an array operation
float_op(op, x, y) ==
    CASE op = "+" -> FAdd(x, y)
      [] op = "-" -> FSub(x, y)
      [] op = "*" -> FMul(x, y)
      [] op = "/" -> FDiv(x, y)
      [] op = "//" -> FFloorDiv(x, y)
      [] op = "**" -> FPow(x, y)

\* numpy's element-wise operator on two one-dimensional operands, broadcasting
\* a length-1 operand; other unequal lengths raise ValueError
array_op(op, l, r) ==
    IF Len(l) = Len(r)
    THEN Value(Array([i \in 1..Len(l) |-> float_op(op, l[i], r[i])]))
    ELSE IF Len(l) = 1
    THEN Value(Array([i \in 1..Len(r) |-> float_op(op, l[1], r[i])]))
    ELSE IF Len(r) = 1
    THEN Value(Array([i \in 1..Len(l) |-> float_op(op, l[i], r[1])]))
    ELSE Raise("ValueError")

\* l op r of Python.  An ndarray operand takes the operation: the other one is
\* converted by np.asarray (the empty tuple to an empty array, a float to a
\* scalar that broadcasts).  Two floats are a Python float operation, which the
\* model does not cover, nor an empty array with an object no operator accepts.
binary_op(op, l, r) ==
    CASE l.tag = "array" /\ r.tag \in {"array", "tuple"} -> array_op(op, l.arr, r.arr)
      [] l.tag = "tuple" /\ r.tag = "array" -> array_op(op, l.arr, r.arr)
      [] l.tag = "array" /\ r.tag = "float" ->
            Value(Array([i \in 1..Len(l.arr) |-> float_op(op, l.arr[i], r.x)]))
      [] l.tag = "float" /\ r.tag = "array" ->
            Value(Array([i \in 1..Len(r.arr) |-> float_op(op, l.x, r.arr[i])]))
      [] l.tag = "tuple" /\ r.tag = "tuple" ->
            IF op = "+" THEN Value(EmptyTuple) ELSE Raise("TypeError")
      [] l.tag = "tuple" /\ r.tag \notin {"array", "tuple"} -> Raise("TypeError")
      [] r.tag = "tuple" /\ l.tag \notin {"array", "tuple"} -> Raise("TypeError")
      [] l.tag \in Opaque /\ r.tag \in Opaque \cup {"float"} -> Raise("TypeError")
      [] l.tag = "float" /\ r.tag \in Opaque -> Raise("TypeError")
      [] l.tag \in Opaque /\ r.tag = "array" /\ r.arr # <<>> -> Raise("TypeError")
      [] r.tag \in Opaque /\ l.tag = "array" /\ l.arr # <<>> -> Raise("TypeError")

\* -x and +x
unary_op(op, v) ==
    CASE v.tag = "array" ->
            Value(Array([i \in 1..Len(v.arr) |-> IF op = "neg" THEN FNeg(v.arr[i]) ELSE v.arr[i]]))
      [] v.tag = "float" -> Value(Float(IF op = "neg" THEN FNeg(v.x) ELSE v.x))
      [] v.tag \in Opaque \cup {"tuple"} -> Raise("TypeError")

RECURSIVE eval_ast(_, _)
\* the value of a parsed expression in the namespace globals, or the exception
\* it raises; operands are evaluated left to right before the operator applies
eval_ast(ast, globals) ==
    CASE ast.op = "name" ->
            IF DictHas(globals, ast.id) THEN Value(DictGet(globals, ast.id))
            ELSE Raise("NameError")
      [] ast.op = "tuple" -> Value(EmptyTuple)
      [] ast.op = "ellipsis" -> Value(Ellipsis)
      [] ast.op \in {"neg", "pos"} ->
            LET x == eval_ast(ast.x, globals)
            IN  IF x.ok THEN unary_op(ast.op, x.val) ELSE x
      [] ast.op \in {"+", "-", "*", "/", "//", "**"} ->
            LET l == eval_ast(ast.l, globals)
            IN  IF ~l.ok THEN l
                ELSE LET r == eval_ast(ast.r, globals)
                     IN  IF ~r.ok THEN r ELSE binary_op(ast.op, l.val, r.val)
      [] ast.op = "attr" ->
            LET x == eval_ast(ast.x, globals)
            IN  IF x.ok THEN getattr(x.val, ast.id) ELSE x
      [] ast.op = "call" ->
            LET f == eval_ast(ast.f, globals)
            IN  IF ~f.ok THEN f
                ELSE LET a == IF ast.args = <<>> THEN Value(EmptyTuple)
                              ELSE eval_ast(ast.args[1], globals)
                     IN  IF ~a.ok THEN a
                         ELSE CASE f.val.tag # "function" -> Raise("TypeError")

eval_parsed(x, globals) == IF x.ok THEN eval_ast(x.ast, globals) ELSE Raise("SyntaxError")

\* eval(expression, allowed_names)
eval(expression, globals) == eval_parsed(parse_source(expression), globals)

EvaluationError(exc) ==
    [kind |-> "error", what |-> "Error evaluating expression", detail |-> exc]

\* lines 88-93 once eval has returned or raised
evaluate_result(r) ==
    IF r.ok THEN [exit |-> FALSE, result |-> r.val, line |-> <<>>]
    ELSE [exit |-> TRUE, result |-> r.val, line |-> <<EvaluationError(r.exc)>>]

\* evaluate_expression(expression, samples): the result returned, or the error
\* line printed before sys.exit(1) when eval raises
evaluate_expression(expression, samples) ==
    evaluate_result(eval(replace_caret(expression), allowed_names(samples)))

(***************************************************************************)
(* Statistics (lines 116-120) and their formatting (lines 122-131)         *)
(***************************************************************************)
RECURSIVE Sum(_)
Sum(arr) == IF arr = <<>> THEN FromInt(0) ELSE FAdd(Head(arr), Sum(Tail(arr)))

\* np.mean(result): NaN (and a RuntimeWarning) for an empty array
np_mean(arr) == IF arr = <<>> THEN NaN ELSE FDiv(Sum(arr), FromInt(Len(arr)))

\* abs(x - x.mean())**2 for every x of arr
squared_deviations(arr, m) == [i \in 1..Len(arr) |-> FMul(FSub(arr[i], m), FSub(arr[i], m))]

\* np.std(result) squared: the mean of the squared deviations from the mean
\* (divisor n).  The standard deviation is its square root, which is kept as
\* this square because it is irrational in general.
np_std_squared(arr) == np_mean(squared_deviations(arr, np_mean(arr)))

RECURSIVE Insert(_, _)
Insert(x, sorted) ==
    IF sorted = <<>> THEN <<x>>
    ELSE IF FLe(x, Head(sorted)) THEN <<x>> \o sorted
    ELSE <<Head(sorted)>> \o Insert(x, Tail(sorted))

RECURSIVE Sort(_)
Sort(arr) == IF arr = <<>> THEN <<>> ELSE Insert(Head(arr), Sort(Tail(arr)))

HasNaN(arr) == \E i \in 1..Len(arr) : IsNaN(arr[i])

\* the value t of the way from a to b, as the NumPy release lerp computes it
interpolate(a, b, t, lerp) ==
    IF lerp = "new" THEN FAdd(a, FMul(FSub(b, a), t))
    ELSE FAdd(FMul(a, FSub(FromInt(1), t)), FMul(b, t))

\* the percentile at the index num / 100 of the ranked samples
ranked_percentile(sorted, num, lerp) ==
    interpolate(sorted[(num \div 100) + 1],
                sorted[IF (num \div 100) + 2 <= Len(sorted) THEN (num \div 100) + 2
                       ELSE (num \div 100) + 1],
                Frac(num % 100, 100), lerp)

\* np.percentile(result, q) with linear interpolation between the two ranked
\* samples around the index (n - 1) * q / 100.  NumPy releases differ on two
\* inputs, and lerp names which is modelled: "new" interpolates as
\* a + (b - a) * t and raises IndexError on an empty array, "old" as
\* a * (1 - t) + b * t and gives NaN on an empty array.
np_percentile(arr, q, lerp) ==
    IF arr = <<>>
    THEN (IF lerp = "new" THEN [raise |-> TRUE, x |-> NaN] ELSE [raise |-> FALSE, x |-> NaN])
    ELSE IF HasNaN(arr) THEN [raise |-> FALSE, x |-> NaN]
    ELSE [raise |-> FALSE, x |-> ranked_percentile(Sort(arr), (Len(arr) - 1) * q, lerp)]

\* the text of a non-negative number of hundredths with two decimals
CentsText(c) == str(c \div 100) \o <<".">> \o str((c % 100) \div 10) \o str(c % 10)

\* f"{x:.2f}": the decimal texts x can be printed as.  A value exactly half way
\* between two texts is printed as either: the rounding error of the float
\* arithmetic that produced it, which the model does not carry, decides.
format_2f(x) ==
    CASE IsNaN(x) -> {<<"n", "a", "n">>}
      [] IsInf(x) -> {(IF x.s < 0 THEN <<"-">> ELSE <<>>) \o <<"i", "n", "f">>}
      [] IsFinite(x) ->
            LET q == (100 * x.n) \div x.d
                r == (100 * x.n) % x.d
                c == IF 2 * r < x.d THEN {q} ELSE IF 2 * r > x.d THEN {q + 1} ELSE {q, q + 1}
            IN  {(IF x.s < 0 THEN <<"-">> ELSE <<>>) \o CentsText(k) : k \in c}

RECURSIVE Bisect(_, _, _)
\* the r with r * r <= k < (r + 1) * (r + 1), given lo * lo <= k < hi * hi
Bisect(k, lo, hi) ==
    IF hi - lo <= 1 THEN lo
    ELSE IF ((lo + hi) \div 2) * ((lo + hi) \div 2) <= k THEN Bisect(k, (lo + hi) \div 2, hi)
    ELSE Bisect(k, lo, (lo + hi) \div 2)

\* the integer part of the square root of k
IntRoot(k) == Bisect(k, 0, IF k < 46340 THEN k + 1 ELSE 46341)

IsSquare(k) == IntRoot(k) * IntRoot(k) = k

\* sqrt(n / d) * 100 rounded to the nearest integer, for v = [n, d] that is not
\* the square of a rational: the largest c with (2c - 1)^2 <= 4 * 100^2 * n / d
RoundedRoot(v) == (IntRoot((40000 * v.n) \div v.d) + 1) \div 2

\* f"{std_dev:.2f}" for std_dev = sqrt(v)
format_2f_sqrt(v) ==
    CASE ~IsFinite(v) -> format_2f(v)
      [] IsFinite(v) /\ IsSquare(v.n) /\ IsSquare(v.d) ->
            format_2f(Norm(1, IntRoot(v.n), IntRoot(v.d)))
      [] IsFinite(v) /\ ~(IsSquare(v.n) /\ IsSquare(v.d)) -> {CentsText(RoundedRoot(v))}

\* lines 116-120 on an ndarray, for one NumPy behaviour
statistics(arr, lerp) ==
    [mean |-> np_mean(arr), std_dev_squared |-> np_std_squared(arr),
     ci_lower |-> np_percentile(arr, 1, lerp), ci_upper |-> np_percentile(arr, 99, lerp)]

\* ' '.join of two parts either of which may be missing
Join(a, sep, b) == IF a = <<>> THEN b ELSE IF b = <<>> THEN a ELSE a \o sep \o b

\* lines 122-133: the line printed for the options -m, -s, -c given, from the
\* texts of the four numbers
output_line(flags, mean, std, lo, hi) ==
    IF flags # {}
    THEN Join(Join(IF "m" \in flags THEN mean ELSE <<>>, <<" ">>,
                   IF "s" \in flags THEN std ELSE <<>>), <<" ">>,
              IF "c" \in flags THEN lo \o <<",">> \o hi ELSE <<>>)
    ELSE mean \o <<" ">> \o std \o <<" ">> \o lo \o <<",">> \o hi

(***************************************************************************)
(* The inputs                                                              *)
(***************************************************************************)
\* the longest text of Alphabet taken as the expression
MaxLen == 3

\* x op y is taken for x and y in 0..MaxOperand
MaxOperand == 2

\* a,b is taken for a and b in -MaxR..MaxR
MaxR == 2

\* -n is taken in -1..MaxN
MaxN == 2

Alphabet == {"1", "2", ",", " ", "-", "*", "(", ")"}

RECURSIVE Texts(_, _)
\* every text of at most k characters of A
Texts(A, k) ==
    IF k = 0 THEN {<<>>}
    ELSE LET shorter == Texts(A, k - 1)
         IN  shorter \cup {Append(t, c) : t \in shorter, c \in A}

Blank == {<<>>, <<" ">>}

\* two non-negative literals joined by one binary operator, with or without a
\* blank on either side of it
BinaryForms ==
    {str(x) \o w1 \o <<op>> \o w2 \o str(y) :
        x \in 0..MaxOperand, y \in 0..MaxOperand, op \in {"+", "-", "*", "/", "^"},
        w1 \in Blank, w2 \in Blank}

\* two literals separated by a comma and optional blanks
RangeForms ==
    {str(a) \o w1 \o <<",">> \o w2 \o str(b) :
        a \in -MaxR..MaxR, b \in -MaxR..MaxR, w1 \in Blank, w2 \in Blank}

\* expressions of the documentation and of the number grammar
Scenarios ==
    {<<"1", ",", "1", "0">>,
     <<"5", ",", "1">>,
     <<"2", " ", "*", " ", "3", ",", "4", ",", "5">>,
     <<"1", ",", "2", " ", "*", " ", "2">>,
     <<"2", "^", "1", "0">>,
     <<"1", ".", "5">>,
     <<"1", "e", "2">>,
     <<"2", ".", "5", "e", "-", "1", ",", "1", "E", "1">>,
     <<"1", " ", "+", " ", "1">>,
     <<"n", "p">>,
     <<"n", "p", ".", "i", "n", "f">>,
     <<"n", "p", ".", "l", "o", "a", "d">>,
     <<".", ".", ".">>,
     <<"5", ",", "1", ",", "2">>,
     <<"1", ",", "2", " ", "+", " ", "5", ",", "1">>,
     <<"v", "a", "r", "0", " ", "+", " ", "1">>,
     <<"x", "5">>,
     <<"5", "-", "3">>}

Inputs == Texts(Alphabet, MaxLen) \cup BinaryForms \cup RangeForms \cup Scenarios

SampleCounts == -1..MaxN

Flags == SUBSET {"m", "s", "c"}

(***************************************************************************)
(* One run of main()                                                       *)
(***************************************************************************)
VARIABLES
    expr,          \* args.expression
    num_samples,   \* args.samples, <<>> until it is read
    expression,    \* the rewritten expression parse_expression returned
    var_values,    \* the dict parse_expression returned, in insertion order
    samples,       \* the dict generate_samples returned
    dist,          \* the branch of generate_samples each entry of samples took
    namespace,     \* allowed_names as evaluate_expression built it
    result,        \* <<the object evaluate_expression returned>>
    stdout,        \* the lines printed
    status,        \* <<the exit status>> once the process has exited
    pc             \* the call of unsafe_main that comes next

vars == <<expr, num_samples, expression, var_values, samples, dist, namespace,
          result, stdout, status, pc>>

Init ==
    /\ expr \in Inputs
    /\ num_samples = <<>>
    /\ expression = <<>>
    /\ var_values = <<>>
    /\ samples = <<>>
    /\ dist = <<>>
    /\ namespace = <<>>
    /\ result = <<>>
    /\ stdout = <<>>
    /\ status = <<>>
    /\ pc = "parse_args"

\* sys.exit(code), after printing the lines given
Exit(lines, code) ==
    /\ stdout' = stdout \o lines
    /\ status' = <<code>>
    /\ pc' = "exited"

\* the handler of lines 140-142 without its print
silent_except(exc) == Exit(<<>>, 1)

\* except Exception as e: print(f"fermi: error: {e}"); sys.exit(1)
main_except(exc) == Exit(<<[kind |-> "error", what |-> "exception", detail |-> exc]>>, 1)

\* parser.parse_args() (lines 96-103): a command line it rejects is reported on
\* standard error and the process exits with status 2
ParseArgs ==
    /\ pc = "parse_args"
    /\ \E accepted \in BOOLEAN :
          IF accepted
          THEN pc' = "parse_expression" /\ UNCHANGED <<stdout, status>>
          ELSE Exit(<<>>, 2)
    /\ UNCHANGED <<expr, num_samples, expression, var_values, samples, dist, namespace, result>>

\* what unsafe_main does with the outcome r of parse_expression
parse_outcome(r) ==
    IF r.exit
    THEN Exit(r.line, 1) /\ UNCHANGED <<expression, var_values>>
    ELSE /\ expression' = r.expression
         /\ var_values' = r.var_values
         /\ pc' = "generate_samples"
         /\ UNCHANGED <<stdout, status>>

\* expression, var_values = parse_expression(expr) (line 108)
CallParseExpression ==
    /\ pc = "parse_expression"
    /\ parse_outcome(parse_expression(expr))
    /\ UNCHANGED <<expr, num_samples, samples, dist, namespace, result>>

\* samples = generate_samples(var_values, num_samples) (line 109); the sample
\* count of the command line is drawn here, where it is first used
CallGenerateSamples ==
    /\ pc = "generate_samples"
    /\ \E n \in SampleCounts :
          /\ num_samples' = <<n>>
          /\ \E g \in generate_samples(var_values, n, <<>>, <<>>) :
                CASE g.outcome = "return" ->
                        /\ samples' = g.samples
                        /\ dist' = g.dist
                        /\ pc' = "evaluate_expression"
                        /\ UNCHANGED <<stdout, status>>
                  [] g.outcome = "exit" ->
                        Exit(g.line, 1) /\ UNCHANGED <<samples, dist>>
                  [] g.outcome = "raise" ->
                        main_except(g.exc) /\ UNCHANGED <<samples, dist>>
    /\ UNCHANGED <<expr, expression, var_values, namespace, result>>

\* what unsafe_main does with the outcome r of evaluate_expression
evaluate_outcome(r) ==
    IF r.exit
    THEN Exit(r.line, 1) /\ UNCHANGED result
    ELSE /\ result' = <<r.result>>
         /\ pc' = "statistics"
         /\ UNCHANGED <<stdout, status>>

\* result = evaluate_expression(expression, samples) (line 110)
CallEvaluateExpression ==
    /\ pc = "evaluate_expression"
    /\ namespace' = allowed_names(samples)
    /\ evaluate_outcome(evaluate_expression(expression, samples))
    /\ UNCHANGED <<expr, num_samples, expression, var_values, samples, dist>>

\* the line of line 113
NotVectorizedError(text) ==
    [kind |-> "error", what |-> "must evaluate to a NumPy array", detail |-> text]

\* a check of the result that takes any sequence for an array
is_sequence(obj) == obj.tag \in {"array", "tuple"}

\* isinstance(result, np.ndarray)
is_ndarray(obj) == obj.tag = "array"

\* print(' '.join(outputs)) of line 133, for the texts the four numbers can
\* have; the options -m, -s, -c of the command line are drawn here, where
\* they are read
print_outputs(means, stds, los, his) ==
    /\ \E flags \in Flags, mean \in means, std \in stds, lo \in los, hi \in his :
          stdout' = Append(stdout, [kind |-> "result", what |-> "statistics",
                                    detail |-> output_line(flags, mean, std, lo, hi)])
    /\ pc' = "return"
    /\ UNCHANGED status

\* lines 119-133 for the statistics st: np.percentile raises on an empty array
\* in one of the NumPy behaviours
report_statistics(st) ==
    IF st.ci_lower.raise \/ st.ci_upper.raise
    THEN main_except("IndexError")
    ELSE print_outputs(format_2f(st.mean), format_2f_sqrt(st.std_dev_squared),
                       format_2f(st.ci_lower.x), format_2f(st.ci_upper.x))

\* lines 112-133: the check of the result, the statistics and the line printed
Report ==
    /\ pc = "statistics"
    /\ IF ~is_ndarray(result[1])
       THEN Exit(<<NotVectorizedError(expr)>>, 1)
       ELSE \E lerp \in {"new", "old"} : report_statistics(statistics(result[1].arr, lerp))
    /\ UNCHANGED <<expr, num_samples, expression, var_values, samples, dist, namespace, result>>

\* unsafe_main and main return: the interpreter exits with status 0
Return ==
    /\ pc = "return"
    /\ Exit(<<>>, 0)
    /\ UNCHANGED <<expr, num_samples, expression, var_values, samples, dist, namespace, result>>

\* except KeyboardInterrupt: sys.exit(1) (lines 138-139), at any point of
\* unsafe_main
KeyboardInterrupt ==
    /\ pc # "exited"
    /\ Exit(<<>>, 1)
    /\ UNCHANGED <<expr, num_samples, expression, var_values, samples, dist, namespace, result>>

Next ==
    \/ ParseArgs
    \/ CallParseExpression
    \/ CallGenerateSamples
    \/ CallEvaluateExpression
    \/ Report
    \/ Return
    \/ KeyboardInterrupt

Spec == Init /\ [][Next]_vars

(***************************************************************************)
(* The claims                                                              *)
(***************************************************************************)
\* the lines of out that begin with 'fermi: error: ', and its result lines
ErrorLines(out) == {i \in 1..Len(out) : out[i].kind = "error"}

ResultLines(out) == {i \in 1..Len(out) : out[i].kind = "result"}

\* a call of unsafe_main after the command line is parsed
StageStep == CallParseExpression \/ CallGenerateSamples \/ CallEvaluateExpression \/ Report

C1_ErrorIsTerminal ==
    /\ Cardinality(ErrorLines(stdout)) <= 1
    /\ Cardinality(ResultLines(stdout)) <= 1
    /\ ErrorLines(stdout) # {} => status = <<1>> /\ ResultLines(stdout) = {}

C1_StageFailure ==
    StageStep /\ pc' = "exited"
        => /\ Cardinality(ErrorLines(stdout')) = 1
           /\ ResultLines(stdout') = {}
           /\ status' = <<1>>

C1_AfterResult ==
    ResultLines(stdout) # {} /\ pc' = "exited"
        => ErrorLines(stdout') = {} /\ (status' = <<0>> \/ KeyboardInterrupt)

\* C1, amended: a stage that ends the run (the range-order check, the comma
\* check, the distribution check, the evaluation, the check of the result, any
\* other Exception) prints exactly one error line, exits with status 1 and no
\* result line is printed in that run; a run that has printed its result line
\* prints no error line, and it exits with status 0 unless a keyboard interrupt
\* ends it first, which exits with status 1.
C1_Amended == [](C1_ErrorIsTerminal) /\ [][C1_StageFailure /\ C1_AfterResult]_vars

\* C1 as stated: at most one error line, which comes with status 1 and without
\* a result line; a run that prints a result line prints no error line and does
\* not exit with status 1.
C1_Original ==
    /\ C1_ErrorIsTerminal
    /\ ResultLines(stdout) # {} => ErrorLines(stdout) = {} /\ status # <<1>>

\* a generic exception ended the run with its one error line
C1_Witness ==
    /\ pc = "exited" /\ status = <<1>>
    /\ stdout = <<[kind |-> "error", what |-> "exception", detail |-> "ValueError"]>>

\* a token that is a range with the lower bound above the upper, m being its
\* match against range_pattern
MatchIsReversed(m) == m.end > 0 /\ FGt(float(m.g1), float(m.g2))

\* the tokens that are ranges with the lower bound above the upper
Reversed(tokens) == {i \in 1..Len(tokens) : MatchIsReversed(fullmatch_range(tokens[i].token))}

First(indices) == CHOOSE i \in indices : \A j \in indices : i <= j

\* what the scan of text found: the rewritten expression, the tokens, the
\* tokens that are reversed ranges
Scan(r) == [expression |-> r.expression, tokens |-> r.tokens, reversed |-> Reversed(r.tokens)]

Scanned(text) == Scan(sub(text, 1, 0))

\* parse_expression has not returned and nothing after it has run
NothingSampled ==
    /\ pc \in {"parse_args", "parse_expression", "exited"}
    /\ num_samples = <<>> /\ var_values = <<>> /\ samples = <<>>
    /\ namespace = <<>> /\ result = <<>>

C2_Aborts(scan, first) ==
    scan.reversed # {} =>
        /\ NothingSampled
        /\ stdout \in {<<>>, <<RangeOrderError(scan.tokens[first].token)>>}
        /\ stdout # <<>> => status = <<1>>
        /\ parse_expression(expr).exit

C2_Scanned(scan) == C2_Aborts(scan, First(scan.reversed))

\* C2: an expression with a range whose lower bound is greater than its upper
\* bound ends in parse_expression with the range-order error, before
\* generate_samples is called; every range of a table parse_expression
\* returned has a <= b.
C2_RangeOrder ==
    /\ C2_Scanned(Scanned(expr))
    /\ \A i \in 1..Len(var_values) :
          var_values[i].value.kind = "range"
              => FLe(var_values[i].value.a, var_values[i].value.b)

\* the second range of "1,2 + 5,1" ended the run
C2_Witness ==
    /\ expr = <<"1", ",", "2", " ", "+", " ", "5", ",", "1">>
    /\ stdout = <<RangeOrderError(<<"5", ",", "1">>)>>
    /\ status = <<1>> /\ samples = <<>>

\* the text e holds a comma
CommaIn(e) == \E i \in 1..Len(e) : e[i] = ","

ParseErrors == {"invalid character ','", "lower bound greater than upper bound"}

\* expr never changes: what a call on it returns is looked at once, in the
\* initial state, and what the run's call returned in the state it returned to
C3_ReturnsNormally(scan, comma) ==
    /\ pc = "parse_args" /\ ~comma /\ scan.reversed = {} => ~parse_expression(expr).exit
    /\ (\E i \in 1..Len(stdout) : stdout[i].what \in ParseErrors)
          => comma \/ scan.reversed # {}
    /\ pc = "generate_samples" /\ ~comma /\ scan.reversed = {}
          => expression = scan.expression

C3_Aborts(scan, comma, lines) ==
    comma => NothingSampled /\ parse_expression(expr).exit /\ stdout \in {<<>>, lines}

C3_AmendedFor(scan, comma) ==
    /\ C3_Aborts(scan, comma,
                 IF scan.reversed = {} THEN <<MalformedRangeError>>
                 ELSE <<RangeOrderError(scan.tokens[First(scan.reversed)].token)>>)
    /\ C3_ReturnsNormally(scan, comma)

C3_AmendedScanned(scan) == C3_AmendedFor(scan, CommaIn(scan.expression))

\* C3, amended: when the rewritten expression still holds a comma the run ends
\* in parse_expression, with the malformed-range error if no range is
\* reversed and with the range-order error if one is, and neither sampling nor
\* evaluation happens; with no comma left and no range reversed
\* parse_expression returns normally.
C3_Amended == C3_AmendedScanned(Scanned(expr))

C3_OriginalFor(scan, comma) ==
    /\ C3_Aborts(scan, comma, <<MalformedRangeError>>)
    /\ C3_ReturnsNormally(scan, comma)

C3_OriginalScanned(scan) == C3_OriginalFor(scan, CommaIn(scan.expression))

\* C3 as stated: a comma left in the rewritten expression always gives the
\* malformed-range error, and neither sampling nor evaluation happens; with no
\* comma left and no range reversed parse_expression returns normally.
C3_Original == C3_OriginalScanned(Scanned(expr))

\* "2 * 3,4,5" ended the run with the malformed-range error
C3_Witness ==
    /\ expr = <<"2", " ", "*", " ", "3", ",", "4", ",", "5">>
    /\ stdout = <<MalformedRangeError>> /\ status = <<1>> /\ NothingSampled

var0 == <<"v", "a", "r", "0">>

var1 == <<"v", "a", "r", "1">>

\* inputs that are two literals a and b around a comma and optional blanks
TwoLiterals ==
    {[text |-> str(a) \o w1 \o <<",">> \o w2 \o str(b), a |-> FromInt(a), b |-> FromInt(b)] :
        a \in -MaxR..MaxR, b \in -MaxR..MaxR, w1 \in Blank, w2 \in Blank}
    \cup {[text |-> <<"1", ",", "1", "0">>, a |-> FromInt(1), b |-> FromInt(10)],
          [text |-> <<"2", ".", "5", "e", "-", "1", ",", "1", "E", "1">>,
           a |-> Frac(1, 4), b |-> FromInt(10)]}

TwoLiteralTexts == {t.text : t \in TwoLiterals}

C4_Table(table) ==
    /\ pc = "parse_args" =>
          parse_expression(expr) =
              [exit |-> FALSE, line |-> <<>>, expression |-> var0, var_values |-> table]
    /\ pc \notin {"parse_args", "parse_expression", "exited"}
          => expression = var0 /\ var_values = table
    /\ \A i \in 1..Len(stdout) :
          stdout[i].what \notin {"invalid character ','", "Error evaluating expression"}
    /\ namespace # <<>> => result = <<Array(samples[1].value)>>

\* C4: an input that is two literals a <= b around a comma and optional
\* whitespace is rewritten to the single placeholder var0 with the table
\* {var0: (a, b)}, gives no malformed-range error, and evaluate_expression
\* returns the sample array of var0 unchanged.
C4_RangePriority ==
    expr \in TwoLiteralTexts =>
        \A t \in TwoLiterals :
            expr = t.text /\ FLe(t.a, t.b)
                => C4_Table(<<[name |-> var0, value |-> Range(t.a, t.b)]>>)

\* "1,10" was parsed, sampled and evaluated
C4_Witness ==
    /\ expr = <<"1", ",", "1", "0">> /\ pc = "return"
    /\ expression = var0
    /\ Len(samples[1].value) >= 1
    /\ result[1].arr = samples[1].value

\* the branch of generate_samples the literal spec value calls for
ExpectedBranch(value) ==
    IF value.kind = "scalar" \/ FEq(value.a, value.b) THEN "constant"
    ELSE IF FGt(value.a, FromInt(0)) THEN "lognormal" ELSE "truncnorm"

IsConstant(arr, v) == \A i \in 1..Len(arr) : arr[i] = v

DistributionErrors ==
    {"invalid range for log-normal distribution", "invalid range for normal distribution"}

\* C5: generate_samples picks the branch from the literal spec alone: a scalar
\* v gives n copies of v; a range with a == b gives n copies of a, whatever
\* the sign of a, and no distribution error; a range with a < b is drawn from
\* the log-normal branch if a > 0 and from the truncated normal over [a, b] if
\* a <= 0.  Every placeholder of the table gets one array of length n.
C5_Distribution ==
    /\ Len(samples) \in {0, Len(var_values)} /\ Len(dist) = Len(samples)
    /\ pc \in {"evaluate_expression", "statistics", "return"}
          => Len(samples) = Len(var_values)
    /\ \A i \in 1..Len(samples) :
          LET value == var_values[i].value
              arr   == samples[i].value
          IN  /\ samples[i].name = var_values[i].name
              /\ dist[i].name = var_values[i].name
              /\ Len(arr) = num_samples[1]
              /\ dist[i].value = ExpectedBranch(value)
              /\ dist[i].value = "constant" => IsConstant(arr, value.a)
              /\ dist[i].value = "lognormal" =>
                    \A j \in 1..Len(arr) : FGt(arr[j], FromInt(0))
              /\ dist[i].value = "truncnorm" =>
                    \A j \in 1..Len(arr) : FLe(value.a, arr[j]) /\ FLe(arr[j], value.b)
    /\ \A i \in 1..Len(var_values), k \in 1..Len(stdout) :
          FEq(var_values[i].value.a, var_values[i].value.b)
              => ~(stdout[k].what \in DistributionErrors
                   /\ stdout[k].detail = var_values[i].name)

\* "0,1" was drawn from the truncated normal
C5_Witness ==
    /\ expr = <<"0", ",", "1">> /\ pc = "evaluate_expression"
    /\ dist = <<[name |-> var0, value |-> "truncnorm"]>>
    /\ Len(samples[1].value) = 2

Operators == {"+", "-", "*", "/", "^"}

\* C6: two non-negative literals x and y joined by one of + - * / ^, with or
\* without whitespace around it, are rewritten to var0 and var1 with the
\* operator between them, and the result is the constant array of length n of
\* x op y (^ being the power).
C6_OperatorsPassThrough ==
    expr \in BinaryForms =>
        \A x \in 0..MaxOperand, y \in 0..MaxOperand, op \in Operators, w1 \in Blank, w2 \in Blank :
            expr = str(x) \o w1 \o <<op>> \o w2 \o str(y) =>
                /\ pc \notin {"parse_args", "parse_expression", "exited"}
                      => expression = var0 \o w1 \o <<op>> \o w2 \o var1
                /\ namespace # <<>> =>
                      result = <<Array(np_full(num_samples[1],
                                  float_op(IF op = "^" THEN "**" ELSE op,
                                           FromInt(x), FromInt(y))))>>

\* "5-3" was rewritten to var0var1, which is one unknown name
C6_Witness ==
    /\ expr = <<"5", "-", "3">>
    /\ expression = var0 \o var1
    /\ stdout = <<EvaluationError("NameError")>> /\ status = <<1>>

\* what a name of the namespace ns, or an attribute of a module it names,
\* resolves to
Resolvable(ns) ==
    {ns[i].value : i \in 1..Len(ns)}
    \cup {getattr(ns[i].value, numpy_attributes[j].name).val :
             i \in {k \in 1..Len(ns) : ns[k].value.tag = "module"},
             j \in 1..Len(numpy_attributes)}

\* numpy.load and numpy.save read and write the files they are given
ReachesFileSystem(obj) == obj \in {Function("numpy.load"), Function("numpy.save")}

\* the builtins hold __import__, open and eval
ResolvesAnyName(obj) == obj = Dict("builtins")

\* C7: the namespace evaluate_expression builds holds the placeholder arrays
\* and a minimal numeric namespace only: nothing a name resolves to during the
\* evaluation reaches the file system, the process or the resolution of
\* arbitrary names.
C7_MinimalNamespace ==
    \A obj \in Resolvable(namespace) : ~ReachesFileSystem(obj) /\ ~ResolvesAnyName(obj)

\* the expression "np.load" evaluated to numpy's file reader
C7_Witness ==
    /\ expr = <<"n", "p", ".", "l", "o", "a", "d">>
    /\ result = <<Function("numpy.load")>>

\* C8: a result that is not an array ends the run with the not-vectorized
\* error and no statistics; statistics are computed on an array only; an
\* evaluation that raises ends the run with the evaluation error carrying the
\* exception, never with the not-vectorized error.
C8_NotVectorized ==
    /\ ResultLines(stdout) # {} \/ pc = "return"
          => result # <<>> /\ result[1].tag = "array"
    /\ result # <<>> /\ result[1].tag # "array" /\ pc # "statistics" =>
          /\ pc = "exited" /\ status = <<1>>
          /\ stdout \in {<<>>, <<NotVectorizedError(expr)>>}
    /\ namespace # <<>> =>
          LET r == eval(replace_caret(expression), namespace)
          IN  IF r.ok
              THEN /\ result = <<r.val>>
                   /\ \A i \in 1..Len(stdout) : stdout[i].what # "Error evaluating expression"
              ELSE /\ result = <<>>
                   /\ stdout = <<EvaluationError(r.exc)>>
                   /\ status = <<1>> /\ pc = "exited"

\* "()" evaluated to the empty tuple and ended the run
C8_Witness ==
    /\ expr = <<"(", ")">> /\ result = <<EmptyTuple>>
    /\ stdout = <<NotVectorizedError(expr)>> /\ status = <<1>>

Placeholder(k) == <<"v", "a", "r">> \o str(k)

RECURSIVE Find(_, _, _)
\* the first position from i on where name occurs in s, Len(s) + 1 if none
Find(s, name, i) ==
    IF i > Len(s) THEN Len(s) + 1
    ELSE IF i + Len(name) - 1 <= Len(s) /\ SubSeq(s, i, i + Len(name) - 1) = name THEN i
    ELSE Find(s, name, i + 1)

RECURSIVE Restore(_, _)
\* text with each placeholder of tokens, in their order, replaced by its
\* token
Restore(text, tokens) ==
    IF tokens = <<>> THEN text
    ELSE LET name == Head(tokens).var_name
             p    == Find(text, name, 1)
         IN  SubSeq(text, 1, p - 1) \o Head(tokens).token
             \o Restore(SubSeq(text, p + Len(name), Len(text)), Tail(tokens))

RECURSIVE Surviving(_, _)
\* text without the placeholders of tokens: the text of the input that
\* survives
Surviving(text, tokens) ==
    IF tokens = <<>> THEN text
    ELSE LET name == Head(tokens).var_name
             p    == Find(text, name, 1)
         IN  SubSeq(text, 1, p - 1)
             \o Surviving(SubSeq(text, p + Len(name), Len(text)), Tail(tokens))

\* the literal spec of a token
LiteralSpec(token) ==
    LET m == fullmatch_range(token)
    IN  IF m.end > 0 THEN Range(float(m.g1), float(m.g2)) ELSE Scalar(float(token))

C9_Names(r, names, left) ==
    /\ pc = "parse_args" =>
          /\ \A k \in 1..Len(r.tokens) : r.tokens[k].var_name = names[k]
          /\ Restore(r.expression, r.tokens) = expr
          /\ \A i \in 1..Len(left) : left[i] \notin Digits
    /\ pc = "generate_samples" =>
          /\ expression = r.expression
          /\ DictKeys(var_values) = names
          /\ \A k \in 1..Len(r.tokens) :
                var_values[k].value = LiteralSpec(r.tokens[k].token)

\* expr never changes: the scan of it is looked at once, in the initial state,
\* and what parse_expression returned in the state it returned to
C9_Scanned(r) ==
    C9_Names(r, [k \in 1..Len(r.tokens) |-> Placeholder(k - 1)],
             Surviving(r.expression, r.tokens))

\* C9: the k-th occurrence of a literal or range, counted from 0 and from the
\* left, gets the placeholder var<k>; the table has one entry per occurrence,
\* in that order, also when occurrences have the same text; the text that
\* survives holds no digit, so no placeholder collides with it; what a run
\* holds is what a second call on the same input returns.
C9_Placeholders == C9_Scanned(sub(expr, 1, 0))

\* "1 1": two occurrences of the same text, two entries
C9_Witness ==
    /\ expr = <<"1", " ", "1">> /\ pc = "generate_samples"
    /\ expression = var0 \o <<" ">> \o var1
    /\ DictKeys(var_values) = <<var0, var1>>
    /\ var_values[1].value = var_values[2].value

ScalarOnly ==
    var_values # <<>> /\ \A i \in 1..Len(var_values) : var_values[i].value.kind = "scalar"

\* the statistics of lines 116-120 are those of the constant array of v
ConstantStatistics(arr, v) ==
    \A lerp \in {"new", "old"} :
        LET st == statistics(arr, lerp)
        IN  /\ IsZero(st.std_dev_squared)
            /\ FEq(st.mean, v)
            /\ ~st.ci_lower.raise /\ FEq(st.ci_lower.x, v)
            /\ ~st.ci_upper.raise /\ FEq(st.ci_upper.x, v)

\* C10: when every literal is a scalar and the evaluation succeeds, for n >= 1,
\* the sample arrays and the result are constant arrays of length n, std_dev
\* is 0 and mean, ci_low, ci_high are the one value; "2^10" is evaluated with
\* the power operator and gives 1024.00 and 0.00.
C10_ScalarOnlyConstant ==
    ScalarOnly /\ result # <<>> /\ num_samples[1] >= 1 =>
        /\ \A i \in 1..Len(samples) :
              /\ Len(samples[i].value) = num_samples[1]
              /\ IsConstant(samples[i].value, var_values[i].value.a)
        /\ result[1].tag = "array"
        /\ Len(result[1].arr) = num_samples[1]
        /\ IsConstant(result[1].arr, result[1].arr[1])
        /\ ConstantStatistics(result[1].arr, result[1].arr[1])
        /\ expr = <<"2", "^", "1", "0">> =>
              /\ replace_caret(expression) = var0 \o <<"*", "*">> \o var1
              /\ format_2f(np_mean(result[1].arr)) = {<<"1", "0", "2", "4", ".", "0", "0">>}
              /\ format_2f_sqrt(np_std_squared(result[1].arr)) = {<<"0", ".", "0", "0">>}

\* "1/0" gave the constant array of inf, whose standard deviation is nan
C10_Witness ==
    /\ expr = <<"1", "/", "0">> /\ num_samples = <<2>>
    /\ result = <<Array(<<Inf(1), Inf(1)>>)>>
    /\ IsNaN(np_std_squared(result[1].arr))

====
